---- MODULE Spec2Model ----
(***************************************************************************)
(* Movie listing API: movies, threaded comments and ratings kept in a      *)
(* relational store (models.py), the crud functions over it (crud.py) and  *)
(* the HTTP routes that call them (main.py).                                *)
(*                                                                         *)
(* Each route is one action: a request runs in one session and commits at  *)
(* most once, so its effect on the store is one atomic step.  Requests are *)
(* served one at a time: the variable `last` holds the request being       *)
(* served and its response until `respond` sends the response out.         *)
(*                                                                         *)
(* `users` is the users table.  `pending` holds the requests that have     *)
(* looked their movie up and not yet written: it stays empty except in     *)
(* the specification that splits a request into its steps.                 *)
(*                                                                         *)
(* Python None and the integer 0 are both written 0 here: row ids start at *)
(* 1, both values are falsy, and no stored user_id equals either.           *)
(* A comment_text is modelled by its length, the only thing the code reads.*)
(***************************************************************************)
EXTENDS Integers, Sequences, FiniteSets, TLC

VARIABLES movies, comments, ratings, users, pending, last

vars == <<movies, comments, ratings, users, pending, last>>

(* ------------------------------ bounds --------------------------------- *)
\* Rows a table can hold in the specification of the comment tree and in
\* the specification of the ratings ...
MaxComments == 3
MaxRatings == 2
\* ... in the specification of the cascade from a movie to its rows ...
MaxCascadeComments == 2
MaxCascadeRatings == 1
\* ... and in the specifications of the movie routes.
MaxMovieComments == 1
MaxMovieRatings == 1
MaxPage == 2
\* Rows of the users table in the specification of signup and profile
\* update, and the times one row's updated_at is set anew.
MaxUserRows == 2
MaxUpdates == 2
\* Requests in flight at a time, and rows a table can hold, in the
\* specification that splits a request into its steps.
MaxPending == 2
MaxRaceRows == 1
\* Comment rows in the specifications where a reply, or a second delete,
\* races with the delete of a comment.
MaxReplyRaceRows == 2

(* ------------------------- program constants --------------------------- *)
None == 0
MinRating == 1
MaxRating == 10
MinCommentLen == 2
OK == 200
BadRequest == 400
Forbidden == 403
NotFound == 404
ValidationError == 422
ServerError == 500

(* ------------------------------ inputs --------------------------------- *)
\* The authenticated actors: get_current_user yields a stored user, and
\* users.id is an autoincrement key, so an actor's id is at least 1; two
\* actors are enough to tell an owner or author from anybody else.
Users == {1, 2}
\* The integers crud.delete_movie / crud.update_movie accept as user_id.
UserIdValues == {0} \cup Users
\* movies.id is an autoincrement key; two movies are enough to tell a
\* movie from another one.
StoredMovieIds == {1, 2}
\* One id beyond the largest a row can get, so that a request can name an
\* absent row in every state.
MovieIds == StoredMovieIds \cup {3}
CommentIds == 1..(MaxComments + 1)
RaceCommentIds == 1..(MaxReplyRaceRows + 1)
RatingInputs == {MinRating - 1, MinRating, MinRating + 1, MaxRating, MaxRating + 1}
\* Where no step reads a rating's value: one value refused, one value stored.
OneRating == {MinRating - 1, MinRating}
CommentTexts == {MinCommentLen - 1, MinCommentLen}
Unset == "unset"
NoneStr == "None"
Titles == {"", "t1", "t2"}
Descriptions == {Unset, NoneStr, "", "d1"}
ReleaseDates == {Unset, NoneStr, "r1"}
MoviePayloads == [title : Titles, description : Descriptions, release_date : ReleaseDates]
\* The payloads requests are drawn from: a create request with an empty
\* title, without a description, and a complete one; an update request with
\* an empty title, the stored title and a new title, and with the
\* description left out or supplied empty.
CreatePayloads ==
  {p \in MoviePayloads :
     p.title # "t2" /\ p.description \in {NoneStr, "d1"} /\ p.release_date = "r1"}
UpdatePayloads ==
  {p \in MoviePayloads : p.description \in {Unset, ""} /\ p.release_date = Unset}
PageValues == 0..MaxPage
\* Signup requests: an empty username, and names and addresses that can
\* collide.
Usernames == {"", "u1", "u2", "u3"}
Emails == {"e1", "e2", "e3"}
UserCreates == [username : Usernames, first_name : {"f1"}, email : Emails, password : {"p1"}]
\* Profile updates: each field left out or supplied; a username supplied
\* empty, an email supplied as None.
UserUpdates ==
  [username : {Unset, "", "u2"}, first_name : {Unset, "f2"}, email : {Unset, NoneStr, "e2"}]
UserIds == 1..(MaxUserRows + 1)

(* ------------------------------ helpers -------------------------------- *)
Min2(a, b) == IF a < b THEN a ELSE b

MaxOf(S) == IF S = {} THEN 0 ELSE CHOOSE x \in S : \A y \in S : y <= x

MinOf(S) == CHOOSE x \in S : \A y \in S : x <= y

\* The rows of a table in the store's default order: ascending primary key.
RECURSIVE InIdOrder(_)
InIdOrder(S) == IF S = {} THEN <<>> ELSE <<MinOf(S)>> \o InIdOrder(S \ {MinOf(S)})

\* The primary key a new row gets: greater than every key in the table.
FreshIds(table, maxId) == {i \in 1..maxId : i > MaxOf(DOMAIN table)}

Without(table, ids) == [i \in (DOMAIN table) \ ids |-> table[i]]

\* Python truthiness of an optional string field: None and "" are falsy.
Falsy(v) == v \in {Unset, NoneStr, ""}

\* A field that reaches the store as NULL: not supplied, or supplied as None.
IsNull(v) == v \in {Unset, NoneStr}

Rows(table, ids) == [i \in ids |-> table[i]]

\* The request served and its response.  `deleted` is not part of the
\* response: it records the comment and rating rows the request's commit
\* removed.
NoRows == [comments |-> <<>>, ratings |-> <<>>]

Response(op, actor, id, arg, status, body) ==
  [op |-> op, actor |-> actor, id |-> id, arg |-> arg, status |-> status, body |-> body,
   deleted |-> NoRows]

Deleting(response, cs, rs) ==
  [response EXCEPT !.deleted = [comments |-> cs, ratings |-> rs]]

\* No request is being served.
NoRequest == Response("idle", None, None, None, OK, None)

Idle == last = NoRequest

\* pwd_context.hash, kept apart from the password it was made from.
Hash(password) == <<"hash", password>>

\* crud.create_user: the row inserted.  first_name stands for the columns
\* first_name, last_name and phone_number, which are written the same way;
\* updated_at counts the times the row's updated_at was set anew.
NewUser(user, hashed_password) ==
  [username |-> user.username, first_name |-> user.first_name, email |-> user.email,
   hashed_password |-> hashed_password, updated_at |-> 0]

\* The actors have signed up.
RegisteredUsers ==
  [u \in Users |->
     NewUser([username |-> IF u = 1 THEN "u1" ELSE "u2", first_name |-> "f1",
              email |-> IF u = 1 THEN "e1" ELSE "e2"], Hash("p1"))]

\* The tables are empty but for the actors' rows; no request is in flight.
Init ==
  /\ movies = <<>>
  /\ comments = <<>>
  /\ ratings = <<>>
  /\ users = RegisteredUsers
  /\ pending = {}
  /\ last = NoRequest

\* The response of the request just served goes out; the next request can
\* be taken.
respond ==
  /\ ~Idle
  /\ last' = NoRequest
  /\ UNCHANGED <<movies, comments, ratings, users, pending>>

(* ------------------------ models.py relationships ---------------------- *)
\* Comment.replies: the comments whose parent_comment_id is c.
Replies(cs, c) == {r \in DOMAIN cs : cs[r].parent_comment_id = c}

\* Mutant: Comment.replies declared without the delete cascade.
CascadeDeleteComment_no_cascade(cs, c) == {c}

\* Session.delete(comment) with cascade="all, delete-orphan" on
\* Comment.replies: the comment and, recursively, its replies.  The session
\* visits each object once, whatever the rows' parent columns say.
RECURSIVE CascadeDeleteComment(_, _)
CascadeDeleteComment(cs, c) ==
  LET below == Replies(cs, c) \ {c}
      rest == Without(cs, {c})
  IN {c} \cup UNION {CascadeDeleteComment(rest, r) : r \in below}

RootComments(cs, m) ==
  {c \in DOMAIN cs : cs[c].movie_id = m /\ cs[c].parent_comment_id = None}

MovieComments(cs, m) == {c \in DOMAIN cs : cs[c].movie_id = m}

MovieRatings(rs, m) == {r \in DOMAIN rs : rs[r].movie_id = m}

(* ------------------------------ crud.py -------------------------------- *)
\* crud.get_movie: the id of the movie found, or None.  The owner filter is
\* applied only `if user_id:`, that is, only for a truthy user_id.
get_movie(ms, id, user_id) ==
  IF id \in DOMAIN ms /\ (user_id # 0 => ms[id].user_id = user_id) THEN id ELSE None

\* A comment object as crud.load_comments_with_replies hands it out: its
\* columns and the replies assigned to it.
Loaded(cs, c, replies) ==
  [id |-> c, comment_text |-> cs[c].comment_text, movie_id |-> cs[c].movie_id,
   user_id |-> cs[c].user_id, parent_comment_id |-> cs[c].parent_comment_id,
   replies |-> replies]

\* Mutant: the replies of a reply are not loaded.
load_replies_one_level(cs, comment) ==
  LET replies == InIdOrder(Replies(cs, comment))
  IN [i \in 1..Len(replies) |-> Loaded(cs, replies[i], <<>>)]

\* load_replies of crud.load_comments_with_replies: the comments whose
\* parent_comment_id is the comment's id, each with its own replies loaded.
RECURSIVE load_replies(_, _)
load_replies(cs, comment) ==
  LET replies == InIdOrder(Replies(cs, comment))
  IN [i \in 1..Len(replies) |-> Loaded(cs, replies[i], load_replies(cs, replies[i]))]

\* crud.load_comments_with_replies: the movie's comments without a parent,
\* each with its replies loaded.
load_comments_with_replies(cs, movie_id) ==
  LET roots == InIdOrder(RootComments(cs, movie_id))
  IN [i \in 1..Len(roots) |-> Loaded(cs, roots[i], load_replies(cs, roots[i]))]

\* crud.load_comments_with_replies(db, movie_id), called: queries only.
crud_load_comments_with_replies ==
  /\ Idle
  /\ \E movie_id \in MovieIds :
       last' = Response("crud.load_comments_with_replies", None, movie_id, None, OK,
                        load_comments_with_replies(comments, movie_id))
  /\ UNCHANGED <<movies, comments, ratings, users, pending>>

\* The query of crud.update_movie and of the update route: id and owner
\* are both always part of the filter.
owned_movie(ms, id, user_id) ==
  IF id \in DOMAIN ms /\ ms[id].user_id = user_id THEN id ELSE None

\* Comments crud.delete_movie removes from the session for movie m:
\* get_movie has replaced movie.comments by the root comments, which makes
\* every other comment of the movie a delete-orphan; Session.delete(movie)
\* then cascades to the remaining collection and along Comment.replies.
MovieCascadeComments(cs, m) ==
  (MovieComments(cs, m) \ RootComments(cs, m))
    \cup UNION {CascadeDeleteComment(cs, c) : c \in MovieComments(cs, m)}

\* Mutant: Movie.ratings declared without the delete cascade.
MovieCascadeRatings_no_cascade(rs, m) == {}

\* Ratings removed with movie m (cascade on Movie.ratings).
MovieCascadeRatings(rs, m) == MovieRatings(rs, m)

\* Mutant: movie_id and user_id passed in each other's place.
NewComment_swapped(text, movie_id, user_id, parent) ==
  [comment_text |-> text, movie_id |-> user_id, user_id |-> movie_id,
   parent_comment_id |-> parent]

\* crud.create_comment / crud.create_nested_comment: the row inserted.
NewComment(text, movie_id, user_id, parent) ==
  [comment_text |-> text, movie_id |-> movie_id, user_id |-> user_id,
   parent_comment_id |-> parent]

\* crud.create_rating: the row inserted.
NewRating(value, movie_id, user_id) ==
  [rating |-> value, movie_id |-> movie_id, user_id |-> user_id]

\* crud.create_movie: the row inserted.
NewMovie(payload, user_id) ==
  [title |-> payload.title, description |-> payload.description,
   release_date |-> payload.release_date, user_id |-> user_id]

(* ----------------------------- schema.py ------------------------------- *)
\* Mutant: the validator without its lower bound.
check_rating_upper_only(value) == ~(value > MaxRating)

\* RatingBase.check_rating
check_rating(value) == ~(value < MinRating \/ value > MaxRating)

\* Mutant: comment_text declared without its min_length.
ValidCommentText_unchecked(text) == TRUE

\* CommentBase.comment_text: min_length=2
ValidCommentText(text) == text >= MinCommentLen

\* MovieCreate.title / MovieUpdate.title: min_length=1
ValidTitle(title) == title # ""

(* ------------------------- main.py: movie routes ----------------------- *)
create_movie ==
  /\ Idle
  /\ \E actor \in Users, payload \in CreatePayloads :
    IF ~ValidTitle(payload.title)
    THEN /\ last' = Response("create_movie", actor, None, payload, ValidationError, None)
         /\ UNCHANGED <<movies, comments, ratings, users, pending>>
    ELSE IF IsNull(payload.description) \/ IsNull(payload.release_date)
    THEN \* NOT NULL column: the commit raises, nothing is stored
         /\ last' = Response("create_movie", actor, None, payload, ServerError, None)
         /\ UNCHANGED <<movies, comments, ratings, users, pending>>
    ELSE \E id \in (FreshIds(movies, MaxOf(StoredMovieIds)) \cap StoredMovieIds) :
         /\ movies' = (id :> NewMovie(payload, actor)) @@ movies
         /\ last' = Response("create_movie", actor, id, payload, OK, NewMovie(payload, actor))
         /\ UNCHANGED <<comments, ratings, users, pending>>

\* The fields the update route writes: `payload.x or movie.x`.
UpdatedMovie(movie, payload) ==
  [movie EXCEPT
     !.title = IF Falsy(payload.title) THEN movie.title ELSE payload.title,
     !.description = IF Falsy(payload.description) THEN movie.description ELSE payload.description,
     !.release_date = IF Falsy(payload.release_date) THEN movie.release_date ELSE payload.release_date]

MovieNotFound == "Movie not found"

\* The response of the update route, a function of the store and the request.
update_movie_response(ms, actor, id, payload) ==
  IF ~ValidTitle(payload.title)
  THEN Response("update_movie", actor, id, payload, ValidationError, None)
  ELSE IF owned_movie(ms, id, actor) = None
  THEN Response("update_movie", actor, id, payload, NotFound, MovieNotFound)
  ELSE Response("update_movie", actor, id, payload, OK, UpdatedMovie(ms[id], payload))

update_movie ==
  /\ Idle
  /\ \E actor \in Users, id \in MovieIds, payload \in UpdatePayloads :
    /\ last' = update_movie_response(movies, actor, id, payload)
    /\ movies' = IF last'.status = OK
                 THEN [movies EXCEPT ![id] = UpdatedMovie(movies[id], payload)]
                 ELSE movies
    /\ UNCHANGED <<comments, ratings, users, pending>>

\* Mutant: a movie of another owner reported as forbidden.
delete_movie_response_forbidden(ms, actor, id) ==
  IF id \notin DOMAIN ms
  THEN Response("delete_movie", actor, id, None, NotFound, MovieNotFound)
  ELSE IF ms[id].user_id # actor
  THEN Response("delete_movie", actor, id, None, Forbidden, "Not authorized to delete this movie")
  ELSE Response("delete_movie", actor, id, None, OK, ms[id])

\* The response of the delete route.
delete_movie_response(ms, actor, id) ==
  IF get_movie(ms, id, actor) = None
  THEN Response("delete_movie", actor, id, None, NotFound, MovieNotFound)
  ELSE Response("delete_movie", actor, id, None, OK, ms[id])

delete_movie ==
  /\ Idle
  /\ \E actor \in Users, id \in MovieIds :
    IF delete_movie_response(movies, actor, id).status = OK
    THEN /\ movies' = Without(movies, {id})
         /\ UNCHANGED <<users, pending>>
         /\ comments' = Without(comments, MovieCascadeComments(comments, id))
         /\ ratings' = Without(ratings, MovieCascadeRatings(ratings, id))
         /\ last' = Deleting(delete_movie_response(movies, actor, id),
                             Rows(comments, MovieCascadeComments(comments, id)),
                             Rows(ratings, MovieCascadeRatings(ratings, id)))
    ELSE /\ last' = delete_movie_response(movies, actor, id)
         /\ UNCHANGED <<movies, comments, ratings, users, pending>>

(* ------------------- crud.py: the movie functions, called -------------- *)
\* crud.delete_movie(db, movie_id, user_id): returns the movie deleted, or
\* None.
crud_delete_movie ==
  /\ Idle
  /\ \E user_id \in UserIdValues, movie_id \in MovieIds :
    IF get_movie(movies, movie_id, user_id) = None
    THEN /\ last' = Response("crud.delete_movie", user_id, movie_id, None, OK, None)
         /\ UNCHANGED <<movies, comments, ratings, users, pending>>
    ELSE /\ movies' = Without(movies, {movie_id})
         /\ UNCHANGED <<users, pending>>
         /\ comments' = Without(comments, MovieCascadeComments(comments, movie_id))
         /\ ratings' = Without(ratings, MovieCascadeRatings(ratings, movie_id))
         /\ last' = Deleting(Response("crud.delete_movie", user_id, movie_id, None, OK, movie_id),
                             Rows(comments, MovieCascadeComments(comments, movie_id)),
                             Rows(ratings, MovieCascadeRatings(ratings, movie_id)))

\* The fields crud.update_movie writes: payload.dict(exclude_unset=True).
SetFields(movie, payload) ==
  [movie EXCEPT
     !.title = IF payload.title = Unset THEN movie.title ELSE payload.title,
     !.description = IF payload.description = Unset THEN movie.description ELSE payload.description,
     !.release_date = IF payload.release_date = Unset THEN movie.release_date ELSE payload.release_date]

\* crud.update_movie(db, movie_id, payload, user_id): returns the movie
\* updated, or None; a None written to a NOT NULL column makes the commit
\* raise.
crud_update_movie ==
  /\ Idle
  /\ \E user_id \in UserIdValues, movie_id \in MovieIds,
     payload \in {p \in UpdatePayloads : ValidTitle(p.title)} :
    IF owned_movie(movies, movie_id, user_id) = None
    THEN /\ last' = Response("crud.update_movie", user_id, movie_id, payload, OK, None)
         /\ UNCHANGED <<movies, comments, ratings, users, pending>>
    ELSE LET movie == SetFields(movies[movie_id], payload)
         IN IF movie.title = NoneStr \/ movie.description = NoneStr \/ movie.release_date = NoneStr
            THEN /\ last' = Response("crud.update_movie", user_id, movie_id, payload, ServerError, None)
                 /\ UNCHANGED <<movies, comments, ratings, users, pending>>
            ELSE /\ movies' = [movies EXCEPT ![movie_id] = movie]
                 /\ last' = Response("crud.update_movie", user_id, movie_id, payload, OK, movie_id)
                 /\ UNCHANGED <<comments, ratings, users, pending>>

(* ------------------------ main.py: comment routes ---------------------- *)
\* Mutant: the query without its filter on the id; first() gives the first
\* row of the table.
movie_by_id_unfiltered(ms, movie_id) ==
  IF DOMAIN ms = {} THEN None ELSE MinOf(DOMAIN ms)

\* db.query(models.Movie).filter(models.Movie.id == movie_id).first(): the
\* id of the movie found, or None.
movie_by_id(ms, movie_id) ==
  IF movie_id \in DOMAIN ms THEN movie_id ELSE None

\* crud.create_comment checks the movie once more before it inserts; the
\* route turns its ValueError into a 400.
create_comment_raises(ms, movie_id) == movie_by_id(ms, movie_id) = None

add_comment(maxRows) ==
  /\ Idle
  /\ \E actor \in Users, movie_id \in MovieIds, text \in CommentTexts :
    IF ~ValidCommentText(text)
    THEN /\ last' = Response("add_comment", actor, movie_id, text, ValidationError, None)
         /\ UNCHANGED <<movies, comments, ratings, users, pending>>
    ELSE IF movie_by_id(movies, movie_id) = None
    THEN /\ last' = Response("add_comment", actor, movie_id, text, NotFound, MovieNotFound)
         /\ UNCHANGED <<movies, comments, ratings, users, pending>>
    ELSE IF create_comment_raises(movies, movie_id)
    THEN /\ last' = Response("add_comment", actor, movie_id, text, BadRequest, MovieNotFound)
         /\ UNCHANGED <<movies, comments, ratings, users, pending>>
    ELSE \E id \in FreshIds(comments, maxRows) :
         /\ comments' = (id :> NewComment(text, movie_id, actor, None)) @@ comments
         /\ last' = Response("add_comment", actor, movie_id, text, OK, id)
         /\ UNCHANGED <<movies, ratings, users, pending>>

ParentMissing == "Parent comment does not exist"

\* Mutant: the link is also written the other way round, on the parent's
\* row.
create_nested_comment_backlink(cs, id, text, parent_comment_id, user_id) ==
  (id :> NewComment(text, cs[parent_comment_id].movie_id, user_id, parent_comment_id))
    @@ [cs EXCEPT ![parent_comment_id].parent_comment_id = id]

\* crud.create_nested_comment, after the parent was found: the table with
\* the reply inserted; the movie_id of the reply is the parent's.
create_nested_comment(cs, id, text, parent_comment_id, user_id) ==
  (id :> NewComment(text, cs[parent_comment_id].movie_id, user_id, parent_comment_id)) @@ cs

add_nested_comment(maxRows) ==
  /\ Idle
  /\ \E actor \in Users, parent_comment_id \in CommentIds, text \in CommentTexts :
    IF ~ValidCommentText(text)
    THEN /\ last' = Response("add_nested_comment", actor, parent_comment_id, text, ValidationError, None)
         /\ UNCHANGED <<movies, comments, ratings, users, pending>>
    ELSE IF parent_comment_id \notin DOMAIN comments
    THEN /\ last' = Response("add_nested_comment", actor, parent_comment_id, text, BadRequest, ParentMissing)
         /\ UNCHANGED <<movies, comments, ratings, users, pending>>
    ELSE \E id \in FreshIds(comments, maxRows) :
         /\ comments' = create_nested_comment(comments, id, text, parent_comment_id, actor)
         /\ last' = Response("add_nested_comment", actor, parent_comment_id, text, OK, id)
         /\ UNCHANGED <<movies, ratings, users, pending>>

\* Mutant: the query without its filter on the id; first() gives the first
\* row of the table.
get_comment_unfiltered(cs, comment_id) ==
  IF DOMAIN cs = {} THEN None ELSE MinOf(DOMAIN cs)

\* crud.get_comment: the id of the comment found, or None.
get_comment(cs, comment_id) ==
  IF comment_id \in DOMAIN cs THEN comment_id ELSE None

\* Mutant: the delete reaches every comment of the comment's movie.
crud_delete_comment_of_movie(cs, comment_id) ==
  LET db_comment == get_comment(cs, comment_id)
  IN IF db_comment # None
     THEN Without(cs, MovieComments(cs, cs[db_comment].movie_id))
     ELSE cs

\* crud.delete_comment: deletes the row if it is there, else does nothing.
crud_delete_comment(cs, comment_id) ==
  LET db_comment == get_comment(cs, comment_id)
  IN IF db_comment # None
     THEN Without(cs, CascadeDeleteComment(cs, db_comment))
     ELSE cs

\* Mutant: the delete route without the authorship test.
NotAuthor_unchecked(comment, actor) == FALSE

\* The authorship test of the delete route.
NotAuthor(comment, actor) == comment.user_id # actor

delete_comment ==
  /\ Idle
  /\ \E actor \in Users, comment_id \in CommentIds :
    IF get_comment(comments, comment_id) = None
    THEN /\ last' = Response("delete_comment", actor, comment_id, None, NotFound, "Comment not found")
         /\ UNCHANGED <<movies, comments, ratings, users, pending>>
    ELSE IF NotAuthor(comments[get_comment(comments, comment_id)], actor)
    THEN /\ last' = Response("delete_comment", actor, comment_id, None, Forbidden,
                             "Not authorized to delete this comment")
         /\ UNCHANGED <<movies, comments, ratings, users, pending>>
    ELSE /\ comments' = crud_delete_comment(comments, comment_id)
         /\ last' = Deleting(Response("delete_comment", actor, comment_id, None, OK, "success"),
                             Rows(comments, (DOMAIN comments)
                                              \ DOMAIN crud_delete_comment(comments, comment_id)),
                             <<>>)
         /\ UNCHANGED <<movies, ratings, users, pending>>

\* OFFSET skip LIMIT limit over rows in store order.
Page(rows, skip, limit) == SubSeq(rows, skip + 1, Min2(Len(rows), skip + limit))

\* A comment as the response serialises it (schema.Comment): its columns and,
\* through Comment.replies, its replies, each serialised the same way.
RECURSIVE CommentOut(_, _)
CommentOut(cs, c) ==
  LET order == InIdOrder(Replies(cs, c))
  IN [id |-> c, comment_text |-> cs[c].comment_text, movie_id |-> cs[c].movie_id,
      user_id |-> cs[c].user_id, parent_comment_id |-> cs[c].parent_comment_id,
      replies |-> [i \in 1..Len(order) |-> CommentOut(cs, order[i])]]

\* Mutant: the query without its parent_comment_id filter.
crud_get_comments_all(cs, movie_id, skip, limit) ==
  Page(InIdOrder(MovieComments(cs, movie_id)), skip, limit)

\* crud.get_comments, after the movie was found: the page of root comments.
crud_get_comments(cs, movie_id, skip, limit) ==
  Page(InIdOrder(RootComments(cs, movie_id)), skip, limit)

get_comments ==
  /\ Idle
  /\ \E movie_id \in MovieIds, skip \in PageValues, limit \in PageValues :
    /\ IF movie_by_id(movies, movie_id) = None
       THEN last' = Response("get_comments", None, movie_id, <<skip, limit>>, NotFound, MovieNotFound)
       ELSE LET page == crud_get_comments(comments, movie_id, skip, limit)
            IN last' = Response("get_comments", None, movie_id, <<skip, limit>>, OK,
                                [i \in 1..Len(page) |-> CommentOut(comments, page[i])])
    /\ UNCHANGED <<movies, comments, ratings, users, pending>>

(* ------------------------ main.py: rating routes ----------------------- *)
\* Mutant: one rating per movie and user; a new one replaces the earlier.
create_rating_upsert(rs, id, value, movie_id, user_id) ==
  (id :> NewRating(value, movie_id, user_id))
    @@ Without(rs, {r \in DOMAIN rs : rs[r].movie_id = movie_id /\ rs[r].user_id = user_id})

\* crud.create_rating: db.add and commit of the new row; the table after.
create_rating(rs, id, value, movie_id, user_id) ==
  (id :> NewRating(value, movie_id, user_id)) @@ rs

add_rating(maxRows, values) ==
  /\ Idle
  /\ \E actor \in Users, movie_id \in MovieIds, value \in values :
    IF ~check_rating(value)
    THEN /\ last' = Response("add_rating", actor, movie_id, value, ValidationError, None)
         /\ UNCHANGED <<movies, comments, ratings, users, pending>>
    ELSE IF movie_by_id(movies, movie_id) = None
    THEN /\ last' = Response("add_rating", actor, movie_id, value, NotFound, MovieNotFound)
         /\ UNCHANGED <<movies, comments, ratings, users, pending>>
    ELSE \E id \in FreshIds(ratings, maxRows) :
         /\ ratings' = create_rating(ratings, id, value, movie_id, actor)
         /\ last' = Response("add_rating", actor, movie_id, value, OK, id)
         /\ UNCHANGED <<movies, comments, users, pending>>

\* A rating as the response serialises it (schema.Rating).
RatingOut(rs, r) ==
  [id |-> r, rating |-> rs[r].rating, movie_id |-> rs[r].movie_id, user_id |-> rs[r].user_id]

\* Mutant: the query without its movie_id filter.
crud_get_ratings_unfiltered(rs, movie_id, skip, limit) ==
  Page(InIdOrder(DOMAIN rs), skip, limit)

\* crud.get_ratings: the page of the movie's ratings.
crud_get_ratings(rs, movie_id, skip, limit) ==
  Page(InIdOrder(MovieRatings(rs, movie_id)), skip, limit)

\* The ratings route: no test that the movie is stored.
get_ratings ==
  /\ Idle
  /\ \E movie_id \in MovieIds, skip \in PageValues, limit \in PageValues :
    /\ LET page == crud_get_ratings(ratings, movie_id, skip, limit)
       IN last' = Response("get_ratings", None, movie_id, <<skip, limit>>, OK,
                           [i \in 1..Len(page) |-> RatingOut(ratings, page[i])])
    /\ UNCHANGED <<movies, comments, ratings, users, pending>>

RECURSIVE SumRatings(_, _)
SumRatings(rs, S) ==
  IF S = {} THEN 0
  ELSE LET r == CHOOSE x \in S : TRUE IN rs[r].rating + SumRatings(rs, S \ {r})

\* A float is written as a fraction num/den; den = 0 writes SQL NULL / None.
NullAverage == [num |-> 0, den |-> 0]
ZeroFloat == [num |-> 0, den |-> 1]

\* crud.get_average_rating: SELECT avg(rating) WHERE movie_id = :movie_id,
\* which is NULL over no rows.
crud_get_average_rating(rs, movie_id) ==
  LET S == {r \in DOMAIN rs : rs[r].movie_id = movie_id}
  IN IF S = {} THEN NullAverage
     ELSE [num |-> SumRatings(rs, S), den |-> Cardinality(S)]

\* Mutant: the route without its None test.
average_rating_out_raw(rs, movie_id) == crud_get_average_rating(rs, movie_id)

\* The average-rating route: None becomes 0.0.
average_rating_out(rs, movie_id) ==
  LET average_rating == crud_get_average_rating(rs, movie_id)
  IN IF average_rating = NullAverage THEN ZeroFloat ELSE average_rating

get_average_rating ==
  /\ Idle
  /\ \E movie_id \in MovieIds :
    /\ last' = Response("get_average_rating", None, movie_id, None, OK,
                        average_rating_out(ratings, movie_id))
    /\ UNCHANGED <<movies, comments, ratings, users, pending>>

(* --------------------- main.py: the movie detail ----------------------- *)
\* The comments crud.get_movie takes out of movie.comments when it puts the
\* root comments in its place: the session holds them as delete-orphans of
\* Movie.comments, to be deleted by its next flush.
orphaned_by_get_movie(cs, m) == MovieComments(cs, m) \ RootComments(cs, m)

\* Mutant: the session is committed when the request ends.
close_session_committed(table, flagged) == Without(table, flagged)

\* The end of a request that has not committed: get_db closes the session,
\* and the deletes it holds or has flushed are rolled back.
close_session(table, flagged) == table

\* The movie as schema.Movie serialises it, with the comments and the
\* average_rating the route has set on it.
MovieOut(ms, cs, rs, id) ==
  [id |-> id, title |-> ms[id].title, description |-> ms[id].description,
   release_date |-> ms[id].release_date, user_id |-> ms[id].user_id,
   comments |-> load_comments_with_replies(cs, id),
   ratings |-> [i \in 1..Len(InIdOrder(MovieRatings(rs, id))) |->
                  RatingOut(rs, InIdOrder(MovieRatings(rs, id))[i])],
   average_rating |-> crud_get_average_rating(rs, id)]

\* GET /movie/{movie_id}: crud.get_movie without a user_id, then
\* crud.get_average_rating; nothing is committed.
get_movie_by_id ==
  /\ Idle
  /\ \E movie_id \in MovieIds :
    LET movie == get_movie(movies, movie_id, None)
    IN IF movie = None
       THEN /\ last' = Response("get_movie_by_id", None, movie_id, None, NotFound,
                                "Movie not found!")
            /\ UNCHANGED <<movies, comments, ratings, users, pending>>
       ELSE /\ last' = Response("get_movie_by_id", None, movie_id, None, OK,
                                MovieOut(movies, comments, ratings, movie))
            /\ comments' = close_session(comments, orphaned_by_get_movie(comments, movie))
            /\ UNCHANGED <<movies, ratings, users, pending>>

(* ------------- main.py: add_comment and add_rating, step by step ------- *)
\* A request that has found its movie and has not written yet; pc names the
\* step it takes next.
Request(op, actor, movie_id, arg, pc) ==
  [op |-> op, actor |-> actor, movie_id |-> movie_id, arg |-> arg, pc |-> pc]

PendingAt(op, pc) == {req \in pending : req.op = op /\ req.pc = pc}

\* Whether the store refuses a row whose movie_id names no movie: the
\* columns are declared ForeignKey('movies.id'), which the store checks or
\* not (SQLite, the store of the tests, does not unless told to).
ForeignKeyChecked == BOOLEAN

\* add_rating up to its query for the movie.
add_rating_lookup ==
  /\ Idle
  /\ \E actor \in Users, movie_id \in MovieIds, value \in OneRating :
    IF ~check_rating(value)
    THEN /\ last' = Response("add_rating", actor, movie_id, value, ValidationError, None)
         /\ UNCHANGED <<movies, comments, ratings, users, pending>>
    ELSE IF movie_by_id(movies, movie_id) = None
    THEN /\ last' = Response("add_rating", actor, movie_id, value, NotFound, MovieNotFound)
         /\ UNCHANGED <<movies, comments, ratings, users, pending>>
    ELSE /\ Cardinality(pending) < MaxPending
         /\ pending' = pending \cup {Request("add_rating", actor, movie_id, value, "insert")}
         /\ UNCHANGED <<movies, comments, ratings, users, last>>

\* crud.create_rating: db.add and commit.
add_rating_insert ==
  /\ Idle
  /\ \E req \in PendingAt("add_rating", "insert"), checked \in ForeignKeyChecked :
    /\ pending' = pending \ {req}
    /\ IF checked /\ req.movie_id \notin DOMAIN movies
       THEN \* the commit raises IntegrityError
            /\ last' = Response("add_rating", req.actor, req.movie_id, req.arg, ServerError, None)
            /\ UNCHANGED <<movies, comments, ratings, users>>
       ELSE \E id \in FreshIds(ratings, MaxRaceRows) :
            /\ ratings' = create_rating(ratings, id, req.arg, req.movie_id, req.actor)
            /\ last' = Response("add_rating", req.actor, req.movie_id, req.arg, OK, id)
            /\ UNCHANGED <<movies, comments, users>>

\* add_comment up to its query for the movie.
add_comment_lookup ==
  /\ Idle
  /\ \E actor \in Users, movie_id \in MovieIds, text \in CommentTexts :
    IF ~ValidCommentText(text)
    THEN /\ last' = Response("add_comment", actor, movie_id, text, ValidationError, None)
         /\ UNCHANGED <<movies, comments, ratings, users, pending>>
    ELSE IF movie_by_id(movies, movie_id) = None
    THEN /\ last' = Response("add_comment", actor, movie_id, text, NotFound, MovieNotFound)
         /\ UNCHANGED <<movies, comments, ratings, users, pending>>
    ELSE /\ Cardinality(pending) < MaxPending
         /\ pending' = pending \cup {Request("add_comment", actor, movie_id, text, "create_comment")}
         /\ UNCHANGED <<movies, comments, ratings, users, last>>

\* crud.create_comment up to its own query for the movie.
create_comment_lookup ==
  /\ Idle
  /\ \E req \in PendingAt("add_comment", "create_comment") :
    IF create_comment_raises(movies, req.movie_id)
    THEN /\ pending' = pending \ {req}
         /\ last' = Response("add_comment", req.actor, req.movie_id, req.arg, BadRequest, MovieNotFound)
         /\ UNCHANGED <<movies, comments, ratings, users>>
    ELSE /\ pending' = (pending \ {req}) \cup {[req EXCEPT !.pc = "insert"]}
         /\ UNCHANGED <<movies, comments, ratings, users, last>>

\* crud.create_comment: db.add and commit.
create_comment_insert ==
  /\ Idle
  /\ \E req \in PendingAt("add_comment", "insert"), checked \in ForeignKeyChecked :
    /\ pending' = pending \ {req}
    /\ IF checked /\ req.movie_id \notin DOMAIN movies
       THEN \* the commit raises IntegrityError
            /\ last' = Response("add_comment", req.actor, req.movie_id, req.arg, ServerError, None)
            /\ UNCHANGED <<movies, comments, ratings, users>>
       ELSE \E id \in FreshIds(comments, MaxRaceRows) :
            /\ comments' = (id :> NewComment(req.arg, req.movie_id, req.actor, None)) @@ comments
            /\ last' = Response("add_comment", req.actor, req.movie_id, req.arg, OK, id)
            /\ UNCHANGED <<movies, ratings, users>>

\* The body and path of a reply request that has read its parent.
ReplyArg(text, parent_comment_id) == [text |-> text, parent_comment_id |-> parent_comment_id]

\* add_nested_comment up to the query of crud.create_nested_comment for the
\* parent: the request holds the parent's id and movie_id from here on.
add_nested_comment_lookup ==
  /\ Idle
  /\ \E actor \in Users, parent_comment_id \in RaceCommentIds, text \in CommentTexts :
    IF ~ValidCommentText(text)
    THEN /\ last' = Response("add_nested_comment", actor, parent_comment_id, text, ValidationError, None)
         /\ UNCHANGED <<movies, comments, ratings, users, pending>>
    ELSE IF parent_comment_id \notin DOMAIN comments
    THEN /\ last' = Response("add_nested_comment", actor, parent_comment_id, text, BadRequest, ParentMissing)
         /\ UNCHANGED <<movies, comments, ratings, users, pending>>
    ELSE /\ Cardinality(pending) < MaxPending
         /\ pending' = pending \cup {Request("add_nested_comment", actor,
                                              comments[parent_comment_id].movie_id,
                                              ReplyArg(text, parent_comment_id), "insert")}
         /\ UNCHANGED <<movies, comments, ratings, users, last>>

\* crud.create_nested_comment: db.add and commit of the reply.
create_nested_comment_insert ==
  /\ Idle
  /\ \E req \in PendingAt("add_nested_comment", "insert"), checked \in ForeignKeyChecked :
    /\ pending' = pending \ {req}
    /\ IF checked /\ (req.arg.parent_comment_id \notin DOMAIN comments
                        \/ req.movie_id \notin DOMAIN movies)
       THEN \* the commit raises IntegrityError
            /\ last' = Response("add_nested_comment", req.actor, req.arg.parent_comment_id,
                                req.arg.text, ServerError, None)
            /\ UNCHANGED <<movies, comments, ratings, users>>
       ELSE \E id \in FreshIds(comments, MaxReplyRaceRows) :
            /\ comments' = (id :> NewComment(req.arg.text, req.movie_id, req.actor,
                                             req.arg.parent_comment_id)) @@ comments
            /\ last' = Response("add_nested_comment", req.actor, req.arg.parent_comment_id,
                                req.arg.text, OK, id)
            /\ UNCHANGED <<movies, ratings, users>>

\* The path of a delete request, and the comment its crud.delete_comment
\* has fetched (None before the query).
DeleteArg(comment_id, db_comment) == [comment_id |-> comment_id, db_comment |-> db_comment]

\* delete_comment up to its call of crud.delete_comment: the comment is
\* found and the actor is its author.
delete_comment_lookup ==
  /\ Idle
  /\ \E actor \in Users, comment_id \in RaceCommentIds :
    IF get_comment(comments, comment_id) = None
    THEN /\ last' = Response("delete_comment", actor, comment_id, None, NotFound, "Comment not found")
         /\ UNCHANGED <<movies, comments, ratings, users, pending>>
    ELSE IF NotAuthor(comments[get_comment(comments, comment_id)], actor)
    THEN /\ last' = Response("delete_comment", actor, comment_id, None, Forbidden,
                             "Not authorized to delete this comment")
         /\ UNCHANGED <<movies, comments, ratings, users, pending>>
    ELSE /\ Cardinality(pending) < MaxPending
         /\ pending' = pending \cup {Request("delete_comment", actor, None,
                                              DeleteArg(comment_id, None), "crud.delete_comment")}
         /\ UNCHANGED <<movies, comments, ratings, users, last>>

\* crud.delete_comment up to its own query for the comment: without a row
\* it logs a warning and returns, and the route answers success.
crud_delete_comment_lookup ==
  /\ Idle
  /\ \E req \in PendingAt("delete_comment", "crud.delete_comment") :
    LET db_comment == get_comment(comments, req.arg.comment_id)
    IN IF db_comment = None
       THEN /\ pending' = pending \ {req}
            /\ last' = Response("delete_comment", req.actor, req.arg.comment_id, None, OK, "success")
            /\ UNCHANGED <<movies, comments, ratings, users>>
       ELSE /\ pending' = (pending \ {req})
                            \cup {[req EXCEPT !.pc = "delete", !.arg.db_comment = db_comment]}
            /\ UNCHANGED <<movies, comments, ratings, users, last>>

\* crud.delete_comment: db.delete(db_comment) and commit.  The DELETE of a
\* row that is gone by now matches nothing, which the session reports as a
\* warning.
crud_delete_comment_commit ==
  /\ Idle
  /\ \E req \in PendingAt("delete_comment", "delete") :
    LET gone == IF req.arg.db_comment \in DOMAIN comments
                THEN CascadeDeleteComment(comments, req.arg.db_comment) ELSE {}
    IN /\ pending' = pending \ {req}
       /\ comments' = Without(comments, gone)
       /\ last' = Deleting(Response("delete_comment", req.actor, req.arg.comment_id, None, OK,
                                    "success"),
                           Rows(comments, gone), <<>>)
       /\ UNCHANGED <<movies, ratings, users>>

(* ------------------------- main.py: user routes ------------------------ *)
\* UserBase.validate_non_empty, run on the fields a request supplies.
ValidName(value) == value = Unset \/ ~Falsy(value)

get_user_by_username(us, username) ==
  IF \E u \in DOMAIN us : us[u].username = username
  THEN CHOOSE u \in DOMAIN us : us[u].username = username
  ELSE None

\* Mutant: signup without its look-up by email.
get_user_by_email_skipped(us, email) == None

get_user_by_email(us, email) ==
  IF \E u \in DOMAIN us : us[u].email = email
  THEN CHOOSE u \in DOMAIN us : us[u].email = email
  ELSE None

\* The constraints of the users table a commit of row `user` under key id
\* would break: unique username, unique email, email NOT NULL.
BreaksConstraint(us, id, user) ==
  \/ user.email = NoneStr
  \/ \E u \in (DOMAIN us) \ {id} :
       us[u].username = user.username \/ us[u].email = user.email

UsernameTaken == "Username already registered!"
EmailTaken == "Email already registered!"

signup ==
  /\ Idle
  /\ \E user \in UserCreates :
    IF ~ValidName(user.username)
    THEN /\ last' = Response("signup", None, None, user, ValidationError, None)
         /\ UNCHANGED <<movies, comments, ratings, users, pending>>
    ELSE IF get_user_by_username(users, user.username) # None
    THEN /\ last' = Response("signup", None, None, user, BadRequest, UsernameTaken)
         /\ UNCHANGED <<movies, comments, ratings, users, pending>>
    ELSE IF get_user_by_email(users, user.email) # None
    THEN /\ last' = Response("signup", None, None, user, BadRequest, EmailTaken)
         /\ UNCHANGED <<movies, comments, ratings, users, pending>>
    ELSE \E id \in FreshIds(users, MaxUserRows) :
         IF BreaksConstraint(users, id, NewUser(user, Hash(user.password)))
         THEN \* the commit of crud.create_user raises
              /\ last' = Response("signup", None, None, user, ServerError, None)
              /\ UNCHANGED <<movies, comments, ratings, users, pending>>
         ELSE /\ users' = (id :> NewUser(user, Hash(user.password))) @@ users
              /\ last' = Response("signup", None, id, user, OK, id)
              /\ UNCHANGED <<movies, comments, ratings, pending>>

\* Mutant: the email of the request is not written.
UpdatedUser_keeps_email(db_user, user_update) ==
  [db_user EXCEPT
     !.username = IF user_update.username = Unset THEN db_user.username ELSE user_update.username,
     !.first_name = IF user_update.first_name = Unset THEN db_user.first_name
                    ELSE user_update.first_name,
     !.updated_at = db_user.updated_at + 1]

\* crud.update_user: setattr for every field of
\* user_update.dict(exclude_unset=True), then updated_at.
UpdatedUser(db_user, user_update) ==
  [db_user EXCEPT
     !.username = IF user_update.username = Unset THEN db_user.username ELSE user_update.username,
     !.first_name = IF user_update.first_name = Unset THEN db_user.first_name
                    ELSE user_update.first_name,
     !.email = IF user_update.email = Unset THEN db_user.email ELSE user_update.email,
     !.updated_at = db_user.updated_at + 1]

\* crud.update_user called by `op` for user_id: None and no write for a
\* user_id that is not stored; no write when the commit raises.
update_user(op, user_id, user_update) ==
  IF user_id \notin DOMAIN users
  THEN /\ last' = Response(op, user_id, user_id, user_update, OK, None)
       /\ UNCHANGED <<movies, comments, ratings, users, pending>>
  ELSE IF BreaksConstraint(users, user_id, UpdatedUser(users[user_id], user_update))
  THEN /\ last' = Response(op, user_id, user_id, user_update, ServerError, None)
       /\ UNCHANGED <<movies, comments, ratings, users, pending>>
  ELSE /\ users[user_id].updated_at < MaxUpdates
       /\ users' = [users EXCEPT ![user_id] = UpdatedUser(users[user_id], user_update)]
       /\ last' = Response(op, user_id, user_id, user_update, OK, user_id)
       /\ UNCHANGED <<movies, comments, ratings, pending>>

\* Mutant: the profile route takes the id of the user to update from the
\* request instead of the actor.
update_profile_of_any_user ==
  /\ Idle
  /\ \E current_user \in DOMAIN users, user_id \in DOMAIN users, user_update \in UserUpdates :
    /\ ValidName(user_update.username) /\ ValidName(user_update.first_name)
    /\ ~BreaksConstraint(users, user_id, UpdatedUser(users[user_id], user_update))
    /\ users[user_id].updated_at < MaxUpdates
    /\ users' = [users EXCEPT ![user_id] = UpdatedUser(users[user_id], user_update)]
    /\ last' = Response("update_profile", current_user, user_id, user_update, OK, user_id)
    /\ UNCHANGED <<movies, comments, ratings, pending>>

\* The profile route: the actor is a stored user, the request is validated
\* before the handler runs.
update_profile ==
  /\ Idle
  /\ \E current_user \in DOMAIN users, user_update \in UserUpdates :
    IF ~(ValidName(user_update.username) /\ ValidName(user_update.first_name))
    THEN /\ last' = Response("update_profile", current_user, current_user, user_update,
                             ValidationError, None)
         /\ UNCHANGED <<movies, comments, ratings, users, pending>>
    ELSE update_user("update_profile", current_user, user_update)

\* crud.update_user(db, user_id, user_update), called with any user_id.
crud_update_user ==
  /\ Idle
  /\ \E user_id \in UserIds,
        user_update \in {u \in UserUpdates : ValidName(u.username) /\ ValidName(u.first_name)} :
    update_user("crud.update_user", user_id, user_update)

(* ---------------------------- specifications --------------------------- *)
\* The comment tree: the routes that read or write comments, and the movie
\* routes that create and remove the movies they hang on.
NextComments ==
  \/ create_movie
  \/ delete_movie
  \/ add_comment(MaxComments)
  \/ add_nested_comment(MaxComments)
  \/ delete_comment
  \/ get_comments
  \/ crud_load_comments_with_replies
  \/ respond

SpecComments == Init /\ [][NextComments]_vars

\* The ratings of movies.
NextRatings ==
  \/ create_movie
  \/ delete_movie
  \/ add_rating(MaxRatings, RatingInputs)
  \/ get_ratings
  \/ get_average_rating
  \/ respond

SpecRatings == Init /\ [][NextRatings]_vars

\* The cascade from a movie to the rows it owns.
NextCascade ==
  \/ create_movie
  \/ delete_movie
  \/ add_comment(MaxCascadeComments)
  \/ add_nested_comment(MaxCascadeComments)
  \/ add_rating(MaxCascadeRatings, OneRating)
  \/ respond

SpecCascade == Init /\ [][NextCascade]_vars

\* The movie routes, over movies that own a comment and a rating.
NextMovies ==
  \/ create_movie
  \/ update_movie
  \/ delete_movie
  \/ add_comment(MaxMovieComments)
  \/ add_rating(MaxMovieRatings, OneRating)
  \/ respond

SpecMovies == Init /\ [][NextMovies]_vars

\* The movie routes, and crud.delete_movie and crud.update_movie called with
\* any user_id their signatures admit.
NextCrud ==
  \/ NextMovies
  \/ crud_delete_movie
  \/ crud_update_movie

SpecCrud == Init /\ [][NextCrud]_vars

\* Requests served at the same time: add_comment and add_rating take their
\* steps one by one, and the movie routes commit in between.
NextRace ==
  \/ create_movie
  \/ delete_movie
  \/ add_rating_lookup
  \/ add_rating_insert
  \/ add_comment_lookup
  \/ create_comment_lookup
  \/ create_comment_insert
  \/ respond

SpecRace == Init /\ [][NextRace]_vars

\* A reply served at the same time as other requests: add_nested_comment
\* takes its two steps one by one, and the comment routes commit in between.
NextReplyRace ==
  \/ create_movie
  \/ add_comment(MaxReplyRaceRows)
  \/ delete_comment
  \/ add_nested_comment_lookup
  \/ create_nested_comment_insert
  \/ respond

SpecReplyRace == Init /\ [][NextReplyRace]_vars

\* The routes that read a movie's rows, next to the routes that store them.
NextReads ==
  \/ create_movie
  \/ delete_movie
  \/ add_comment(MaxCascadeComments)
  \/ add_nested_comment(MaxCascadeComments)
  \/ add_rating(MaxCascadeRatings, OneRating)
  \/ get_movie_by_id
  \/ get_comments
  \/ get_ratings
  \/ get_average_rating
  \/ respond

SpecReads == Init /\ [][NextReads]_vars

\* The delete of a comment among the comments and ratings of movies.
NextTree ==
  \/ create_movie
  \/ delete_movie
  \/ add_comment(MaxCascadeComments)
  \/ add_nested_comment(MaxCascadeComments)
  \/ delete_comment
  \/ add_rating(MaxCascadeRatings, OneRating)
  \/ respond

SpecTree == Init /\ [][NextTree]_vars

\* Deletes of comments served at the same time: delete_comment takes its
\* steps one by one.  The comments are stored before the deletes begin.
comment_before_deletes ==
  /\ pending = {}
  /\ \/ create_movie
     \/ add_comment(MaxReplyRaceRows)
     \/ add_nested_comment(MaxReplyRaceRows)

NextDeleteRace ==
  \/ comment_before_deletes
  \/ delete_comment_lookup
  \/ crud_delete_comment_lookup
  \/ crud_delete_comment_commit
  \/ respond

SpecDeleteRace == Init /\ [][NextDeleteRace]_vars

\* Every route that writes a movie, a comment or a rating, over a root
\* comment with replies.
NextStore ==
  \/ create_movie
  \/ update_movie
  \/ delete_movie
  \/ add_comment(MaxMovieComments)
  \/ add_nested_comment(MaxCascadeComments)
  \/ delete_comment
  \/ add_rating(MaxMovieRatings, OneRating)
  \/ respond

SpecStore == Init /\ [][NextStore]_vars

\* Nobody has signed up yet.
InitUsers ==
  /\ movies = <<>>
  /\ comments = <<>>
  /\ ratings = <<>>
  /\ users = <<>>
  /\ pending = {}
  /\ last = NoRequest

\* The users table: signup and the update of a profile.
NextUsers ==
  \/ signup
  \/ update_profile
  \/ crud_update_user
  \/ respond

SpecUsers == InitUsers /\ [][NextUsers]_vars

\* The user routes alone.
NextProfile ==
  \/ signup
  \/ update_profile
  \/ respond

SpecProfile == InitUsers /\ [][NextProfile]_vars

(* ------------------------------- claims -------------------------------- *)
\* The ancestors of comment c: the comments on the chain of
\* parent_comment_id references that starts at c, at most n links long.
RECURSIVE AncestorsWithin(_, _, _)
AncestorsWithin(cs, c, n) ==
  IF n = 0 \/ c \notin DOMAIN cs THEN {}
  ELSE IF cs[c].parent_comment_id = None THEN {}
  ELSE {cs[c].parent_comment_id} \cup AncestorsWithin(cs, cs[c].parent_comment_id, n - 1)

\* The transitive replies of comment x: the comments x is an ancestor of.
TransitiveReplies(cs, x) ==
  {d \in DOMAIN cs : x \in AncestorsWithin(cs, d, Cardinality(DOMAIN cs))}

CountOfMovie(table, m) == Cardinality({r \in DOMAIN table : table[r].movie_id = m})

\* C1: every stored comment with a parent has a stored parent, and the two
\* are comments of the same movie.
C1_ParentExistsSameMovie ==
  \A c \in DOMAIN comments :
    comments[c].parent_comment_id # None =>
      /\ comments[c].parent_comment_id \in DOMAIN comments
      /\ comments[c].movie_id = comments[comments[c].parent_comment_id].movie_id

\* A reply is stored, of a movie other than the first, after a delete went
\* through that removed rows.
C1_Witness ==
  /\ last.op \in {"delete_comment", "delete_movie"}
  /\ last.status = OK
  /\ DOMAIN last.deleted.comments # {}
  /\ \E c \in DOMAIN comments :
       /\ comments[c].parent_comment_id # None
       /\ comments[c].movie_id = MaxOf(StoredMovieIds)

\* C2: a successful delete of comment x of movie m lowers the number of
\* comments of m by 1 plus the number of transitive replies of x, and leaves
\* neither x nor any transitive reply of x in the store.
C2_DeleteRemovesSubtree ==
  [][(last'.op = "delete_comment" /\ last'.status = OK) =>
       LET x == last'.id
           m == comments[x].movie_id
           subtree == TransitiveReplies(comments, x)
       IN /\ CountOfMovie(comments', m) = CountOfMovie(comments, m) - (1 + Cardinality(subtree))
          /\ x \notin DOMAIN comments'
          /\ subtree \cap DOMAIN comments' = {}]_vars

\* A delete went through that removed a comment, a reply to it and a reply
\* to that reply.
C2_Witness ==
  /\ last.op = "delete_comment"
  /\ last.status = OK
  /\ \E b, c \in DOMAIN last.deleted.comments :
       /\ last.deleted.comments[b].parent_comment_id = last.id
       /\ last.deleted.comments[c].parent_comment_id = b

\* C4: a delete request for a stored comment by an actor other than its
\* author is answered Forbidden and changes nothing; by its author it is
\* answered OK and removes the comment.
C4_OnlyAuthorDeletes ==
  [][(last'.op = "delete_comment" /\ last'.id \in DOMAIN comments) =>
       IF comments[last'.id].user_id # last'.actor
       THEN /\ last'.status = Forbidden
            /\ UNCHANGED <<movies, comments, ratings>>
       ELSE /\ last'.status = OK
            /\ last'.id \notin DOMAIN comments']_vars

\* A delete of a comment with a reply was refused as Forbidden.
C4_Witness ==
  /\ last.op = "delete_comment"
  /\ last.status = Forbidden
  /\ \E c \in DOMAIN comments : comments[c].parent_comment_id = last.id

\* C3: right after a successful delete_movie of movie m, answered to the
\* movie's owner, m is not stored and no comment and no rating has
\* movie_id = m.
C3_DeleteMovieCascades ==
  (last.op = "delete_movie" /\ last.status = OK) =>
    /\ last.body.user_id = last.actor
    /\ last.id \notin DOMAIN movies
    /\ CountOfMovie(comments, last.id) = 0
    /\ CountOfMovie(ratings, last.id) = 0

\* A movie was deleted that had a root comment, a reply to it and a rating.
C3_Witness ==
  /\ last.op = "delete_movie"
  /\ last.status = OK
  /\ DOMAIN last.deleted.ratings # {}
  /\ \E a, b \in DOMAIN last.deleted.comments :
       /\ last.deleted.comments[a].parent_comment_id = None
       /\ last.deleted.comments[b].parent_comment_id = a

\* C5: for every actor, the update route and the delete route answer a
\* request on a stored movie of another owner with the status and body they
\* answer the same request on an absent movie id with; for a well-formed
\* request that answer is NotFound, "Movie not found".
C5_NotOwnedAsAbsent ==
  /\ \A actor \in Users, owned \in DOMAIN movies, absent \in MovieIds \ DOMAIN movies :
       movies[owned].user_id # actor =>
         /\ delete_movie_response(movies, actor, owned).status = NotFound
         /\ delete_movie_response(movies, actor, absent).status = NotFound
         /\ delete_movie_response(movies, actor, owned).body
              = delete_movie_response(movies, actor, absent).body
         /\ \A payload \in UpdatePayloads :
              /\ update_movie_response(movies, actor, owned, payload).status
                   = update_movie_response(movies, actor, absent, payload).status
              /\ update_movie_response(movies, actor, owned, payload).body
                   = update_movie_response(movies, actor, absent, payload).body
              /\ payload.title # "" =>
                   update_movie_response(movies, actor, owned, payload).status = NotFound
  /\ (last.op \in {"update_movie", "delete_movie"} /\ last.status = NotFound) =>
       last.body = MovieNotFound

\* The delete route answered NotFound for a stored movie of another owner.
C5_Witness ==
  /\ last.op = "delete_movie"
  /\ last.status = NotFound
  /\ last.id \in DOMAIN movies
  /\ movies[last.id].user_id # last.actor
  /\ CountOfMovie(comments, last.id) > 0

\* C6: a call of delete_movie or update_movie, route or crud function, with
\* a user_id other than the movie's user_id leaves the movie, the comments
\* and the ratings as they were.
C6_OwnerScoped ==
  [][(/\ last'.op \in {"delete_movie", "update_movie", "crud.delete_movie", "crud.update_movie"}
      /\ last'.id \in DOMAIN movies
      /\ movies[last'.id].user_id # last'.actor)
       => UNCHANGED <<movies, comments, ratings>>]_vars

\* C7: add_rating with a value below 1 or above 10 is answered
\* ValidationError and stores nothing; with a value in 1..10 on a stored
\* movie it is answered OK and stores one rating with that value; every
\* stored rating has a value in 1..10.
C7_RatingRange ==
  [][/\ last'.op = "add_rating" =>
          IF last'.arg < MinRating \/ last'.arg > MaxRating
          THEN /\ last'.status = ValidationError
               /\ UNCHANGED <<movies, comments, ratings>>
          ELSE last'.id \in DOMAIN movies =>
                 /\ last'.status = OK
                 /\ \E new \in (DOMAIN ratings') \ DOMAIN ratings :
                      /\ DOMAIN ratings' = (DOMAIN ratings) \cup {new}
                      /\ ratings'[new].rating = last'.arg
                 /\ \A r \in DOMAIN ratings : ratings'[r] = ratings[r]
     /\ \A r \in DOMAIN ratings' : ratings'[r].rating \in MinRating..MaxRating]_vars

\* A rating of 10 was just stored next to a stored rating of 1.
C7_Witness ==
  /\ last.op = "add_rating"
  /\ last.status = OK
  /\ last.arg = MaxRating
  /\ \E r \in DOMAIN ratings : ratings[r].rating = MinRating

\* The sum of the values of the ratings of movie m with an id of at most n.
RECURSIVE RatingSumUpTo(_, _, _)
RatingSumUpTo(rs, m, n) ==
  IF n = 0 THEN 0
  ELSE RatingSumUpTo(rs, m, n - 1)
         + (IF n \in DOMAIN rs /\ rs[n].movie_id = m THEN rs[n].rating ELSE 0)

\* C8: the average-rating route answers the sum of the values of the
\* movie's stored ratings divided by their number, and 0.0, a number, when
\* the movie has no rating.
C8_AverageIsMean ==
  last.op = "get_average_rating" =>
    /\ last.status = OK
    /\ last.body.den > 0
    /\ IF CountOfMovie(ratings, last.id) = 0
       THEN last.body.num = 0
       ELSE last.body.num * CountOfMovie(ratings, last.id)
              = RatingSumUpTo(ratings, last.id, MaxOf(DOMAIN ratings)) * last.body.den

\* The average was asked of a movie with the two ratings 1 and 10.
C8_Witness ==
  /\ last.op = "get_average_rating"
  /\ \E r1, r2 \in DOMAIN ratings :
       /\ ratings[r1].movie_id = last.id
       /\ ratings[r2].movie_id = last.id
       /\ ratings[r1].rating # ratings[r2].rating
  /\ last.body.num = MinRating + MaxRating
  /\ last.body.den = 2

\* The ids in a serialised comment and in its nested replies.
RECURSIVE NodeIds(_)
NodeIds(node) ==
  {node.id} \cup UNION {NodeIds(node.replies[i]) : i \in DOMAIN node.replies}

\* Every node's replies field holds its direct replies, each once.
RECURSIVE RepliesComplete(_)
RepliesComplete(node) ==
  /\ {node.replies[i].id : i \in DOMAIN node.replies}
       = {c \in DOMAIN comments : comments[c].parent_comment_id = node.id}
  /\ \A i, j \in DOMAIN node.replies :
       node.replies[i].id = node.replies[j].id => i = j
  /\ \A i \in DOMAIN node.replies : RepliesComplete(node.replies[i])

\* C9: get_comments(m, skip, limit) on a stored movie answers root comments
\* of m only: the ones after the first `skip` roots in store order, at most
\* `limit` of them, replies not counted, each with its whole reply subtree.
C9_RootPagination ==
  (last.op = "get_comments" /\ last.status = OK) =>
    LET m == last.id
        skip == last.arg[1]
        limit == last.arg[2]
        page == last.body
        roots == {c \in DOMAIN comments :
                    comments[c].movie_id = m /\ comments[c].parent_comment_id = None}
        left == IF Cardinality(roots) > skip THEN Cardinality(roots) - skip ELSE 0
    IN /\ Len(page) <= limit
       /\ Len(page) = (IF limit < left THEN limit ELSE left)
       /\ \A i \in 1..Len(page) :
            /\ page[i].id \in roots
            /\ page[i].movie_id = m
            /\ page[i].parent_comment_id = None
            /\ Cardinality({r \in roots : r < page[i].id}) = skip + i - 1
            /\ RepliesComplete(page[i])
            /\ NodeIds(page[i]) = {page[i].id} \cup TransitiveReplies(comments, page[i].id)

\* With skip 1 and limit 1 the second root comment of a movie was returned,
\* past a reply of that movie with a smaller id than it.
C9_Witness ==
  /\ last.op = "get_comments"
  /\ last.status = OK
  /\ last.arg = <<1, 1>>
  /\ Len(last.body) = 1
  /\ \E c \in DOMAIN comments :
       /\ comments[c].movie_id = last.id
       /\ comments[c].parent_comment_id # None
       /\ c < last.body[1].id

\* C10: a well-formed add_comment on an absent movie id is answered NotFound
\* and stores nothing; on a stored movie it is answered OK and stores one
\* new comment, with that movie_id, the actor as user_id and no parent.
C10_RootComment ==
  [][(last'.op = "add_comment" /\ last'.arg >= MinCommentLen) =>
       IF last'.id \notin DOMAIN movies
       THEN /\ last'.status = NotFound
            /\ UNCHANGED <<movies, comments, ratings>>
       ELSE /\ last'.status = OK
            /\ \E new \in (DOMAIN comments') \ DOMAIN comments :
                 /\ DOMAIN comments' = (DOMAIN comments) \cup {new}
                 /\ comments'[new].movie_id = last'.id
                 /\ comments'[new].user_id = last'.actor
                 /\ comments'[new].parent_comment_id = None
            /\ \A c \in DOMAIN comments : comments'[c] = comments[c]
            /\ UNCHANGED <<movies, ratings>>]_vars

\* An actor who does not own the movie has just stored a root comment on it.
C10_Witness ==
  /\ last.op = "add_comment"
  /\ last.status = OK
  /\ movies[last.id].user_id # last.actor
  /\ last.body \in DOMAIN comments
  /\ comments[last.body].user_id = last.actor

\* C11: a well-formed add_nested_comment on a parent_comment_id that is not
\* stored is answered NotFound, the status a missing movie and a missing
\* comment are answered with, and stores no comment.
C11_MissingParentNotFound ==
  [][(/\ last'.op = "add_nested_comment"
      /\ last'.arg >= MinCommentLen
      /\ last'.id \notin DOMAIN comments)
       => /\ last'.status = NotFound
          /\ UNCHANGED <<movies, comments, ratings>>]_vars

\* C12: a delete request for a comment id that is not stored is answered
\* NotFound, whoever the actor is, and changes nothing; Forbidden is
\* answered only for a stored comment.
C12_MissingCommentNotFound ==
  [][last'.op = "delete_comment" =>
       /\ last'.id \notin DOMAIN comments =>
            /\ last'.status = NotFound
            /\ UNCHANGED <<movies, comments, ratings>>
       /\ last'.status = Forbidden => last'.id \in DOMAIN comments]_vars

\* A delete of a comment id that is not stored was answered NotFound while
\* comments of both actors were stored.
C12_Witness ==
  /\ last.op = "delete_comment"
  /\ last.status = NotFound
  /\ last.id \notin DOMAIN comments
  /\ \A u \in Users : \E c \in DOMAIN comments : comments[c].user_id = u

\* C13: add_rating with a value in 1..10 on a movie id that is not stored is
\* answered NotFound and stores no rating.
C13_RatingOfMissingMovie ==
  [][(/\ last'.op = "add_rating"
      /\ last'.arg \in MinRating..MaxRating
      /\ last'.id \notin DOMAIN movies)
       => /\ last'.status = NotFound
          /\ UNCHANGED <<movies, comments, ratings>>]_vars

\* A rating with a valid value for a movie id that is not stored was
\* answered NotFound while another movie was stored and rated.
C13_Witness ==
  /\ last.op = "add_rating"
  /\ last.status = NotFound
  /\ last.arg \in MinRating..MaxRating
  /\ last.id \notin DOMAIN movies
  /\ \E r \in DOMAIN ratings : ratings[r].movie_id \in DOMAIN movies

\* The ratings of movie m by user u.
RatingsBy(rs, m, u) == {r \in DOMAIN rs : rs[r].movie_id = m /\ rs[r].user_id = u}

\* C14: every successful add_rating by an actor on a movie adds one rating
\* row, raises the number of that actor's ratings of that movie by one, and
\* leaves every earlier rating as it was.
C14_RatingsNotUnique ==
  [][(last'.op = "add_rating" /\ last'.status = OK) =>
       /\ Cardinality(RatingsBy(ratings', last'.id, last'.actor))
            = Cardinality(RatingsBy(ratings, last'.id, last'.actor)) + 1
       /\ Cardinality(DOMAIN ratings') = Cardinality(DOMAIN ratings) + 1
       /\ \A r \in DOMAIN ratings : r \in DOMAIN ratings' /\ ratings'[r] = ratings[r]]_vars

\* An actor's second rating of a movie was just stored, and both are there.
C14_Witness ==
  /\ last.op = "add_rating"
  /\ last.status = OK
  /\ Cardinality(RatingsBy(ratings, last.id, last.actor)) >= 2

\* C15: get_ratings(m, skip, limit) answers stored ratings of m only: the
\* ones after the first `skip` ratings of m in store order, min(limit,
\* count - skip) of them, none when skip >= count.
C15_RatingsPage ==
  last.op = "get_ratings" =>
    LET m == last.id
        skip == last.arg[1]
        limit == last.arg[2]
        page == last.body
        count == CountOfMovie(ratings, m)
    IN /\ last.status = OK
       /\ Len(page) = (IF skip >= count THEN 0
                       ELSE IF limit < count - skip THEN limit ELSE count - skip)
       /\ \A i \in 1..Len(page) :
            /\ page[i].movie_id = m
            /\ page[i].id \in DOMAIN ratings
            /\ ratings[page[i].id].movie_id = m
            /\ page[i].rating = ratings[page[i].id].rating
            /\ page[i].user_id = ratings[page[i].id].user_id
            /\ Cardinality({r \in DOMAIN ratings :
                              ratings[r].movie_id = m /\ r < page[i].id}) = skip + i - 1

\* With skip 1 and a limit of 2 the second of a movie's two ratings was
\* returned, alone.
C15_Witness ==
  /\ last.op = "get_ratings"
  /\ last.arg = <<1, 2>>
  /\ Len(last.body) = 1
  /\ CountOfMovie(ratings, last.id) = 2
  /\ \E r \in DOMAIN ratings : r < last.body[1].id /\ ratings[r].rating # last.body[1].rating

\* C16: a well-formed signup with a username or an email that a stored
\* user has is answered with the status and the message of a taken
\* username or email and leaves the users table as it was; no two stored
\* users ever have the same username or the same email.
C16_SignupUnique ==
  [][/\ (/\ last'.op = "signup"
          /\ last'.arg.username # ""
          /\ \E u \in DOMAIN users :
               users[u].username = last'.arg.username \/ users[u].email = last'.arg.email)
           => /\ last'.status = BadRequest
              /\ last'.body \in {UsernameTaken, EmailTaken}
              /\ users' = users
     /\ \A u, v \in DOMAIN users' :
          (users'[u].username = users'[v].username \/ users'[u].email = users'[v].email)
            => u = v]_vars

\* A signup with a new username and the email of a stored user was refused
\* while two users were stored.
C16_Witness ==
  /\ last.op = "signup"
  /\ last.status = BadRequest
  /\ last.body = EmailTaken
  /\ Cardinality(DOMAIN users) = 2
  /\ \A u \in DOMAIN users : users[u].username # last.arg.username

\* C18: an update of a user that returns the user has written each supplied
\* field, kept each field not supplied, the hashed password and the key, set
\* updated_at anew and left every other row alone; update_user for a user id
\* that is not stored returns None and writes nothing.
C18_ProfileUpdate ==
  [][last'.op \in {"update_profile", "crud.update_user"} =>
       /\ (last'.status = OK /\ last'.body # None) =>
            LET id == last'.id
                supplied == last'.arg
            IN /\ id \in DOMAIN users
               /\ DOMAIN users' = DOMAIN users
               /\ \A u \in (DOMAIN users) \ {id} : users'[u] = users[u]
               /\ users'[id].username
                    = (IF supplied.username = Unset THEN users[id].username ELSE supplied.username)
               /\ users'[id].first_name
                    = (IF supplied.first_name = Unset THEN users[id].first_name
                       ELSE supplied.first_name)
               /\ users'[id].email
                    = (IF supplied.email = Unset THEN users[id].email ELSE supplied.email)
               /\ users'[id].hashed_password = users[id].hashed_password
               /\ users'[id].updated_at > users[id].updated_at
       /\ last'.id \notin DOMAIN users =>
            /\ last'.body = None
            /\ users' = users]_vars

\* A profile update that supplied the email only went through on a row
\* whose first_name an earlier update had written.
C18_Witness ==
  /\ last.op = "update_profile"
  /\ last.status = OK
  /\ last.arg = [username |-> Unset, first_name |-> Unset, email |-> "e2"]
  /\ users[last.id].email = "e2"
  /\ users[last.id].first_name = "f2"
  /\ users[last.id].updated_at = 2

\* C17: a successful update of a movie by its owner leaves each supplied
\* field with the supplied value, whatever the value, each field not
\* supplied with its earlier value, and the movie's id and user_id as they
\* were.
C17_UpdateOverwritesSupplied ==
  [][(last'.op = "update_movie" /\ last'.status = OK) =>
       LET id == last'.id
           supplied == last'.arg
       IN /\ DOMAIN movies' = DOMAIN movies
          /\ movies'[id].user_id = movies[id].user_id
          /\ movies'[id].title
               = (IF supplied.title = Unset THEN movies[id].title ELSE supplied.title)
          /\ movies'[id].description
               = (IF supplied.description = Unset THEN movies[id].description
                  ELSE supplied.description)
          /\ movies'[id].release_date
               = (IF supplied.release_date = Unset THEN movies[id].release_date
                  ELSE supplied.release_date)]_vars

\* The number of comment objects in a sequence of loaded comments, replies
\* at every depth counted.
RECURSIVE ForestSize(_)
ForestSize(forest) ==
  IF forest = <<>> THEN 0
  ELSE 1 + ForestSize(Head(forest).replies) + ForestSize(Tail(forest))

\* C19: load_comments_with_replies(m) returns, at the top, the comments of m
\* without a parent, each once; every comment in the result has its direct
\* replies, each once, in its replies field; and every stored comment of m
\* is in the result once, at whatever depth.
C19_ForestComplete ==
  last.op = "crud.load_comments_with_replies" =>
    LET m == last.id
        forest == last.body
        ofMovie == {c \in DOMAIN comments : comments[c].movie_id = m}
    IN /\ {forest[i].id : i \in DOMAIN forest}
            = {c \in ofMovie : comments[c].parent_comment_id = None}
       /\ \A i, j \in DOMAIN forest : forest[i].id = forest[j].id => i = j
       /\ \A i \in DOMAIN forest : RepliesComplete(forest[i])
       /\ UNION {NodeIds(forest[i]) : i \in DOMAIN forest} = ofMovie
       /\ ForestSize(forest) = Cardinality(ofMovie)

\* The forest of a movie was loaded whose comments are a root, a reply to it
\* and a reply to that reply.
C19_Witness ==
  /\ last.op = "crud.load_comments_with_replies"
  /\ Len(last.body) = 1
  /\ Len(last.body[1].replies) = 1
  /\ Len(last.body[1].replies[1].replies) = 1
  /\ CountOfMovie(comments, last.id) = 3

\* C20: every stored comment and every stored rating has the movie_id of a
\* stored movie, also when add_comment and add_rating run step by step
\* next to delete_movie.
C20_NoOrphans ==
  /\ \A c \in DOMAIN comments : comments[c].movie_id \in DOMAIN movies
  /\ \A r \in DOMAIN ratings : ratings[r].movie_id \in DOMAIN movies

(* C21: while a reply is created at the same time as its parent is deleted
   (the parent is read, the delete commits, the reply is inserted), no
   stored comment's parent_comment_id names a comment that is not stored. *)
C21_NoDanglingParent ==
  \A c \in DOMAIN comments :
    comments[c].parent_comment_id # None => comments[c].parent_comment_id \in DOMAIN comments

(* C22: a request with a comment text shorter than 2 characters
   (add_comment, add_nested_comment) or with an empty title (create and
   update of a movie) is answered with a validation error and leaves the
   store as it was; every stored comment has a text of at least 2
   characters and every stored movie a title that is not empty. *)
C22_ValidationBeforePersistence ==
  [][/\ ((\/ (last'.op \in {"add_comment", "add_nested_comment"}
               /\ last'.arg < MinCommentLen)
          \/ (last'.op \in {"create_movie", "update_movie"} /\ last'.arg.title = ""))
         => /\ last'.status = ValidationError
            /\ UNCHANGED <<movies, comments, ratings, users>>)
     /\ \A c \in DOMAIN comments' : comments'[c].comment_text >= MinCommentLen
     /\ \A mv \in DOMAIN movies' : movies'[mv].title # ""]_vars

\* A reply too short has been refused though its parent is stored, in a
\* store that holds a movie whose title an update has renewed.
C22_Witness ==
  /\ last.op = "add_nested_comment"
  /\ last.status = ValidationError
  /\ last.id \in DOMAIN comments
  /\ \E mv \in DOMAIN movies : movies[mv].title = "t2"

(* C23: a stored user changes only in a step of update_profile whose actor
   is that user, and no step removes a user: the set of user ids only
   grows. *)
C23_UserChangedByOwnProfile ==
  [][\A u \in DOMAIN users :
       /\ u \in DOMAIN users'
       /\ users'[u] # users[u]
            => /\ last'.op = "update_profile"
               /\ last'.actor = u
               /\ last'.status = OK]_vars

\* A user has updated the profile next to a user whose row was never
\* updated.
C23_Witness ==
  /\ last.op = "update_profile"
  /\ last.status = OK
  /\ last.body = last.actor
  /\ users[last.actor].updated_at > 0
  /\ \E u \in DOMAIN users : u # last.actor /\ users[u].updated_at = 0

(* C24: in every state the routes reach, no comment is its own ancestor
   along parent_comment_id, so that the recursion of load_replies, which
   follows the links the other way without remembering where it has been,
   comes to an end for every movie. *)
C24_ParentAcyclic ==
  \A c \in DOMAIN comments :
    c \notin AncestorsWithin(comments, c, Cardinality(DOMAIN comments))

\* A reply to a reply has been stored: a chain of three comments.
C24_Witness ==
  /\ last.op = "add_nested_comment"
  /\ last.status = OK
  /\ Cardinality(AncestorsWithin(comments, last.body, Cardinality(DOMAIN comments))) = 2

(* C25: the routes that read (get_movie_by_id, get_comments, get_ratings,
   get_average_rating) leave every stored movie, comment and rating as it
   was, the replies of the movie that get_movie_by_id has read included. *)
C25_ReadsLeaveStore ==
  [][last'.op \in {"get_movie_by_id", "get_comments", "get_ratings", "get_average_rating"}
       => UNCHANGED <<movies, comments, ratings>>]_vars

\* The detail of a movie that has a reply among its comments has been read,
\* and the reply is still stored.
C25_Witness ==
  /\ last.op = "get_movie_by_id"
  /\ last.status = OK
  /\ \E c \in DOMAIN comments :
       comments[c].movie_id = last.id /\ comments[c].parent_comment_id # None

(* C26: the average_rating in the movie detail that get_movie_by_id returns
   is the value the average-rating route reports for the same movie in the
   same state, for a movie with ratings and for a movie with none. *)
C26_DetailAverageAgrees ==
  (last.op = "get_movie_by_id" /\ last.status = OK)
    => last.body.average_rating = average_rating_out(ratings, last.id)

(* C27: a successful delete of comment x leaves every comment that is
   neither x nor a transitive reply of x stored and as it was (siblings,
   ancestors, comments of other movies), and leaves the movies, the ratings
   and the users as they were. *)
C27_DeleteCommentFrame ==
  [][(last'.op = "delete_comment" /\ last'.status = OK) =>
       LET x == last'.id
           others == (DOMAIN comments) \ ({x} \cup TransitiveReplies(comments, x))
       IN /\ \A c \in others : c \in DOMAIN comments' /\ comments'[c] = comments[c]
          /\ UNCHANGED <<movies, ratings, users>>]_vars

\* A comment was deleted whose movie keeps another comment and has a
\* rating.
C27_Witness ==
  /\ last.op = "delete_comment"
  /\ last.status = OK
  /\ \E c \in DOMAIN comments :
       comments[c].movie_id = last.deleted.comments[last.id].movie_id
  /\ \E r \in DOMAIN ratings :
       ratings[r].movie_id = last.deleted.comments[last.id].movie_id

(* C28: a movie, a comment and a rating are stored with the user_id of the
   actor whose request created them, and no later step changes the user_id
   of a stored movie, comment or rating, nor the movie_id or the
   parent_comment_id of a stored comment. *)
C28_OwnerAndLinksFixed ==
  [][/\ \A mv \in DOMAIN movies' :
         IF mv \in DOMAIN movies
         THEN movies'[mv].user_id = movies[mv].user_id
         ELSE last'.op = "create_movie" /\ movies'[mv].user_id = last'.actor
     /\ \A c \in DOMAIN comments' :
         IF c \in DOMAIN comments
         THEN /\ comments'[c].user_id = comments[c].user_id
              /\ comments'[c].movie_id = comments[c].movie_id
              /\ comments'[c].parent_comment_id = comments[c].parent_comment_id
         ELSE /\ last'.op \in {"add_comment", "add_nested_comment"}
              /\ comments'[c].user_id = last'.actor
     /\ \A r \in DOMAIN ratings' :
         IF r \in DOMAIN ratings
         THEN ratings'[r].user_id = ratings[r].user_id
         ELSE last'.op = "add_rating" /\ ratings'[r].user_id = last'.actor]_vars

\* A movie of user 1 holds a comment of user 2 with a reply of user 1 and a
\* rating of user 2, and its title has been updated.
C28_Witness ==
  \E mv \in DOMAIN movies, c, d \in DOMAIN comments, r \in DOMAIN ratings :
    /\ movies[mv].user_id = 1 /\ movies[mv].title = "t2"
    /\ comments[c].movie_id = mv /\ comments[c].user_id = 2
    /\ comments[d].parent_comment_id = c /\ comments[d].user_id = 1
    /\ ratings[r].movie_id = mv /\ ratings[r].user_id = 2
    /\ last.op = "update_movie" /\ last.status = OK /\ last.id = mv

(* C29: for a movie id that is not stored, the average-rating route answers
   OK with 0.0 and the ratings route answers OK with the empty sequence,
   which is what they answer for a stored movie without ratings, while the
   comments route answers NotFound. *)
C29_MissingMovieReads ==
  /\ (last.op = "get_average_rating"
        /\ (last.id \notin DOMAIN movies \/ MovieRatings(ratings, last.id) = {}))
       => /\ last.status = OK
          /\ last.body.num = 0
          /\ last.body.den # 0
  /\ (last.op = "get_ratings"
        /\ (last.id \notin DOMAIN movies \/ MovieRatings(ratings, last.id) = {}))
       => /\ last.status = OK
          /\ last.body = <<>>
  /\ (last.op = "get_comments" /\ last.id \notin DOMAIN movies)
       => last.status = NotFound

\* The first ratings of a movie that is not stored have been asked for
\* while another movie has a rating.
C29_Witness ==
  /\ last.op = "get_ratings"
  /\ last.id \notin DOMAIN movies
  /\ last.arg[1] = 0
  /\ last.arg[2] > 0
  /\ ratings # <<>>

(* C30: when two deletes of the same comment by its author have both passed
   the existence and authorship tests before either deletes, each is
   answered success; the first to delete removes the comment and its
   transitive replies, the other finds no row and removes nothing, and no
   row outside the comment's subtree is removed. *)
C30_DoubleDelete ==
  [][(last'.op = "delete_comment" /\ pending' # pending /\ last' # last) =>
       LET x == last'.id
           removed == (DOMAIN comments) \ DOMAIN comments'
       IN /\ last'.status = OK
          /\ last'.body = "success"
          /\ x \notin DOMAIN comments'
          /\ IF x \in DOMAIN comments
             THEN removed = {x} \cup TransitiveReplies(comments, x)
             ELSE removed = {}
          /\ \A c \in DOMAIN comments' : c \in DOMAIN comments /\ comments'[c] = comments[c]
          /\ UNCHANGED <<movies, ratings, users>>]_vars

\* The second of two deletes of a comment has been answered success: the
\* comment is gone, the delete has removed nothing, and a comment outside
\* the subtree is still stored.
C30_Witness ==
  /\ last.op = "delete_comment"
  /\ last.status = OK
  /\ last.deleted.comments = <<>>
  /\ last.id \notin DOMAIN comments
  /\ comments # <<>>

====
